---------------------------- MODULE Spec2Model ----------------------------
(***************************************************************************)
(* stacksafe: the growth gate generated by #[stacksafe], the process-wide  *)
(* growth policy store, the per-thread protected-context tracker and the   *)
(* StackSafe guard, as a state machine.                                     *)
(*                                                                         *)
(* A thread is a call stack of frames.  The bottom frame is the thread's   *)
(* own unguarded code ("main"); every other frame is one call of a         *)
(* #[stacksafe] function, walking through the code the macro generates:    *)
(*   load_min -> load_alloc -> wrap -> gate -> enter -> body .. -> exit    *)
(*   -> (teardown) -> ret                                                  *)
(***************************************************************************)
EXTENDS Integers, Sequences, FiniteSets, TLC

(* ------------------------------ bounds -------------------------------- *)

\* Stack bytes one guarded call uses between its probe and the next probe.
FrameBytes == 65536
\* Headroom of a thread's own stack when the thread starts.
InitialStack == 163840
\* Longest slice handed to sum() by the thread's own code.
MaxN == 2
\* Deepest nesting of guards inside a guard's contained value.
MaxNest == 1

(* ------------------------- program constants --------------------------- *)

DefaultMinimumStackSize == 131072
DefaultStackAllocSize == 2097152
\* A u32 is two 16-bit limbs (2^32 itself is beyond the checker's integers).
Limb == 65536

Threads == {"t1", "t2"}

\* Arguments set_minimum_stack_size is called with: zero, a positive value
\* below one frame, and a very large one.
MinArgs == {0, 1, DefaultStackAllocSize}
\* Arguments set_stack_allocation_size is called with: zero and a small
\* segment size.
AllocArgs == {0, DefaultMinimumStackSize}

\* Values of the u32 handed to no_ret(): the test's 42 and one whose
\* tenfold does not fit in 32 bits.
XValues == {42, 429496730}

\* Values wrapped in a StackSafe guard.
GuardValues == {10, 100}

VARIABLES
    debug_assertions,    \* build mode: cfg(debug_assertions)
    MINIMUM_STACK_SIZE,  \* static AtomicUsize
    STACK_ALLOC_SIZE,    \* static AtomicUsize
    PROTECTED,           \* thread_local Cell<bool>, per thread
    stack,               \* per thread: sequence of frames, top is last
    segs,                \* per thread: sequence of stack segments, current is last
    mode,                \* per thread: "run" | "unwind"
    overflow,            \* per thread: the thread ran off its stack (process aborts)
    cell,                \* per thread: the value inside the thread's StackSafe guard
    obs,                 \* per thread: outcome of the guard access just made
    started,             \* per thread: the thread has been spawned
    lastSet,             \* history: latest argument of each setter
    hist,                \* history per thread, for the current top-level call
    twin,                \* per thread: the guard made by cloning the thread's guard
    writer               \* a thread that only updates the policy: its program, and
                         \* history: the (threshold, size) pairs the store has held

vars == <<debug_assertions, MINIMUM_STACK_SIZE, STACK_ALLOC_SIZE, PROTECTED,
          stack, segs, mode, overflow, cell, obs, started, lastSet, hist,
          twin, writer>>

policyVars == <<MINIMUM_STACK_SIZE, STACK_ALLOC_SIZE, lastSet>>

(* ------------------------------ helpers -------------------------------- *)

None == 0 - 1

Val(tag, v) == [tag |-> tag, v |-> v]
NoVal == Val("none", 0)

Obs(kind, v) == [kind |-> kind, v |-> v]
NoObs == Obs("none", 0)
\* The thread moves on: the access's outcome is consumed.
Forget(t) == [obs EXCEPT ![t] = NoObs]

MainFrame ==
    [fn |-> "main", called |-> "none", pc |-> "idle", arg |-> 0, n |-> 0,
     rz |-> None, ss |-> None, grew |-> FALSE, old |-> FALSE, pre |-> FALSE,
     ret |-> NoVal, bodyret |-> NoVal]

Top(t) == stack[t][Len(stack[t])]
Depth(t) == Len(stack[t]) - 1
SetTop(s, f) == [s EXCEPT ![Len(s)] = f]
Pop(s) == SubSeq(s, 1, Len(s) - 1)

CurSeg(t) == segs[t][Len(segs[t])]
\* stacker::remaining_stack(): bytes between the stack pointer and the
\* limit of the segment the thread is running on.
remaining_stack(t) == CurSeg(t).size - CurSeg(t).used

Aborted == \E t \in Threads : overflow[t]

\* The thread is executing (not unwinding, process alive).
Running(t) == started[t] /\ ~Aborted /\ mode[t] = "run"

\* The thread's own code is between statements.
MainReady(t) == Depth(t) = 0 /\ Top(t).pc \in {"idle", "after_call", "caught"}

\* The thread's own code has its guarded call back, with a value.
CallReturned(t) == Depth(t) = 0 /\ Top(t).pc = "after_call"

\* A point inside a function body where user code runs.
InBody(t) == Depth(t) > 0 /\ Top(t).pc \in {"body", "after_call"}

(* ------------------------ growth policy store -------------------------- *)

\* Mutant: the threshold setter writes the other field.
SetMinimumWrongField(bytes) ==
    /\ STACK_ALLOC_SIZE' = bytes
    /\ UNCHANGED MINIMUM_STACK_SIZE

\* pub fn set_minimum_stack_size(bytes)
set_minimum_stack_size(bytes) ==
    /\ MINIMUM_STACK_SIZE' = bytes
    /\ UNCHANGED STACK_ALLOC_SIZE

\* Mutant: the allocation-size setter refuses zero.
SetAllocationRejectsZero(bytes) ==
    /\ STACK_ALLOC_SIZE' = (IF bytes = 0 THEN STACK_ALLOC_SIZE ELSE bytes)
    /\ UNCHANGED MINIMUM_STACK_SIZE

\* pub fn set_stack_allocation_size(bytes)
set_stack_allocation_size(bytes) ==
    /\ STACK_ALLOC_SIZE' = bytes
    /\ UNCHANGED MINIMUM_STACK_SIZE

\* pub fn get_minimum_stack_size()
get_minimum_stack_size == MINIMUM_STACK_SIZE

\* Mutant: the allocation-size getter loads the other static.
GetAllocationWrongStatic == MINIMUM_STACK_SIZE

\* pub fn get_stack_allocation_size()
get_stack_allocation_size == STACK_ALLOC_SIZE

\* Any thread calls set_minimum_stack_size(bytes).
SetMinimumStackSize ==
    \E bytes \in MinArgs :
        /\ ~Aborted
        /\ set_minimum_stack_size(bytes)
        /\ lastSet' = [lastSet EXCEPT !.min = bytes]
        /\ UNCHANGED <<debug_assertions, twin, writer, PROTECTED, stack, segs, mode, overflow,
                       cell, obs, started, hist>>

\* Any thread calls set_stack_allocation_size(bytes).
SetStackAllocationSize ==
    \E bytes \in AllocArgs :
        /\ ~Aborted
        /\ set_stack_allocation_size(bytes)
        /\ lastSet' = [lastSet EXCEPT !.alloc = bytes]
        /\ UNCHANGED <<debug_assertions, twin, writer, PROTECTED, stack, segs, mode, overflow,
                       cell, obs, started, hist>>


\* History of the current top-level call: segments allocated, whether every
\* probe so far found headroom >= the threshold it read, how often the
\* call's own body was entered, and the value that body produced.
NewHist == [allocs |-> 0, shallow |-> TRUE, runs |-> 0, out |-> NoVal]
\* The body of the top-level call (depth 1) produced value v.
Produced(t, v) ==
    IF Depth(t) = 1 THEN [hist EXCEPT ![t].out = v] ELSE hist

(* --------------------- protected-context tracker ----------------------- *)

\* Mutant: the check is trusted in every build.
IsProtectedTrusted(t) == TRUE

\* Mutant: the flag is consulted in every build.
IsProtectedChecked(t) == PROTECTED[t]

\* internal::is_protected()
is_protected(t) == IF debug_assertions THEN PROTECTED[t] ELSE TRUE

\* Mutant: replace(true) is left out, the flag is never set.
EnterFlagUnset(t) == PROTECTED[t]

\* with_protected, on entry: PROTECTED.replace(true) returns the old value
\* and stores true.  A release build has no flag.
EnterOld(t) == IF debug_assertions THEN PROTECTED[t] ELSE FALSE
EnterFlag(t) == IF debug_assertions THEN TRUE ELSE PROTECTED[t]

\* Mutant: the flag is cleared on exit instead of restored.
ExitFlagCleared(t, old) == IF debug_assertions THEN FALSE ELSE PROTECTED[t]

\* with_protected, after the callback returned: PROTECTED.set(old).
ExitFlag(t, old) == IF debug_assertions THEN old ELSE PROTECTED[t]

\* with_protected has no drop guard: when the callback unwinds, the line
\* that stores `old` back is never reached and the flag keeps its value.
UnwindFlag(t, old) == PROTECTED[t]

\* Mutant: the callback's value is dropped.
ExitRetLost(ret) == NoVal

\* with_protected hands the callback's value back: `ret`.
ExitRet(ret) == ret

(* ----------------------------- growth gate ------------------------------ *)

\* A call of a #[stacksafe] function: a new frame at the start of the
\* generated block.  `pre` remembers the flag the caller had.
NewFrame(t, fn, arg, n) ==
    [fn |-> fn, called |-> "none", pc |-> "load_min", arg |-> arg, n |-> n,
     rz |-> None, ss |-> None, grew |-> FALSE, old |-> FALSE, pre |-> PROTECTED[t],
     ret |-> NoVal, bodyret |-> NoVal]

\* The caller waits, the callee's frame is pushed.
Call(t, fn, arg, n) ==
    Append(SetTop(stack[t], [Top(t) EXCEPT !.pc = "await", !.called = fn,
                                           !.ret = NoVal]),
           NewFrame(t, fn, arg, n))

\* First argument of maybe_grow: get_minimum_stack_size().
LoadMin(t) ==
    /\ Running(t) /\ Depth(t) > 0 /\ Top(t).pc = "load_min"
    /\ stack' = [stack EXCEPT ![t] =
                   SetTop(@, [Top(t) EXCEPT !.rz = get_minimum_stack_size,
                                            !.pc = "load_alloc"])]
    /\ obs' = Forget(t)
    /\ UNCHANGED <<debug_assertions, twin, writer, policyVars, PROTECTED, segs, mode, overflow,
                   cell, started, hist>>

\* Second argument of maybe_grow: get_stack_allocation_size().
LoadAlloc(t) ==
    /\ Running(t) /\ Depth(t) > 0 /\ Top(t).pc = "load_alloc"
    /\ stack' = [stack EXCEPT ![t] =
                   SetTop(@, [Top(t) EXCEPT !.ss = get_stack_allocation_size,
                                            !.pc = "wrap"])]
    /\ obs' = Forget(t)
    /\ UNCHANGED <<debug_assertions, twin, writer, policyVars, PROTECTED, segs, mode, overflow,
                   cell, started, hist>>

\* Mutant: with_protected sets the flag when it is called, before the gate
\* has run the closure.
WrapEager(t) ==
    /\ Running(t) /\ Depth(t) > 0 /\ Top(t).pc = "wrap"
    /\ stack' = [stack EXCEPT ![t] = SetTop(@, [Top(t) EXCEPT !.pc = "gate"])]
    /\ PROTECTED' = [PROTECTED EXCEPT ![t] = EnterFlag(t)]
    /\ obs' = Forget(t)
    /\ UNCHANGED <<debug_assertions, twin, writer, policyVars, segs, mode,
                   overflow, cell, started, hist>>

\* Third argument: with_protected(closure) only builds the closure.
Wrap(t) ==
    /\ Running(t) /\ Depth(t) > 0 /\ Top(t).pc = "wrap"
    /\ stack' = [stack EXCEPT ![t] = SetTop(@, [Top(t) EXCEPT !.pc = "gate"])]
    /\ obs' = Forget(t)
    /\ UNCHANGED <<debug_assertions, twin, writer, policyVars, PROTECTED, segs, mode, overflow,
                   cell, started, hist>>

\* Mutant: the two policy values are passed in the wrong order.
GateArgsSwapped(f) == <<f.ss, f.rz>>

\* Mutant: no red zone is passed.
GateArgsNoRedZone(f) == <<0, f.ss>>

\* The arguments the generated block passes to maybe_grow, in order:
\* (red_zone, stack_size).
GateArgs(f) == <<f.rz, f.ss>>

\* stacker::maybe_grow: enough space when remaining_stack() >= red_zone.
EnoughSpace(remaining, red_zone) == remaining >= red_zone

\* stacker::grow: a fresh segment of stack_size bytes becomes the current one.
NewSegment(stack_size) == [size |-> stack_size, used |-> 0]

\* The callback starts running on segment sg: its frame takes FrameBytes.
PushBytes(sg) == [sg EXCEPT !.used = @ + FrameBytes]
PopBytes(sg) == [sg EXCEPT !.used = @ - FrameBytes]
Fits(sg) == sg.size - sg.used >= FrameBytes

\* maybe_grow(red_zone, stack_size, callback): probe, then call the callback
\* here or on a new segment.  A callback frame that does not fit where it is
\* put runs off the stack.
MaybeGrow(t) ==
    /\ Running(t) /\ Depth(t) > 0 /\ Top(t).pc = "gate"
    /\ LET red_zone == GateArgs(Top(t))[1]
           stack_size == GateArgs(Top(t))[2]
           enough == EnoughSpace(remaining_stack(t), red_zone)
           target == IF enough THEN CurSeg(t) ELSE NewSegment(stack_size)
           base == IF enough THEN Pop(segs[t]) ELSE segs[t]
       IN  /\ hist' = [hist EXCEPT
                         ![t].allocs = @ + (IF enough THEN 0 ELSE 1),
                         ![t].shallow = @ /\ remaining_stack(t) >= Top(t).rz]
           /\ IF Fits(target)
                 THEN /\ segs' = [segs EXCEPT ![t] = Append(base, PushBytes(target))]
                      /\ UNCHANGED overflow
                 ELSE /\ segs' = [segs EXCEPT ![t] = Append(base, target)]
                      /\ overflow' = [overflow EXCEPT ![t] = TRUE]
           /\ stack' = [stack EXCEPT ![t] =
                          SetTop(@, [Top(t) EXCEPT !.pc = "enter", !.grew = ~enough,
                                                   !.rz = None, !.ss = None])]
    /\ obs' = Forget(t)
    /\ UNCHANGED <<debug_assertions, twin, writer, policyVars, PROTECTED, mode, cell, started>>

\* The closure with_protected returned starts: replace(true).
Enter(t) ==
    /\ Running(t) /\ Depth(t) > 0 /\ Top(t).pc = "enter"
    /\ stack' = [stack EXCEPT ![t] =
                   SetTop(@, [Top(t) EXCEPT !.old = EnterOld(t), !.pc = "body"])]
    /\ PROTECTED' = [PROTECTED EXCEPT ![t] = EnterFlag(t)]
    /\ hist' = [hist EXCEPT ![t].runs = @ + (IF Depth(t) = 1 THEN 1 ELSE 0)]
    /\ obs' = Forget(t)
    /\ UNCHANGED <<debug_assertions, twin, writer, policyVars, segs, mode, overflow, cell,
                   started>>

\* The callback returned: set(old), hand `ret` back; the closure's frame is
\* gone from the segment it ran on.
Exit(t) ==
    /\ Running(t) /\ Depth(t) > 0 /\ Top(t).pc = "exit"
    /\ PROTECTED' = [PROTECTED EXCEPT ![t] = ExitFlag(t, Top(t).old)]
    /\ segs' = [segs EXCEPT ![t] = SetTop(@, PopBytes(CurSeg(t)))]
    /\ stack' = [stack EXCEPT ![t] =
                   SetTop(@, [Top(t) EXCEPT !.ret = ExitRet(Top(t).bodyret),
                                            !.pc = IF Top(t).grew THEN "teardown"
                                                                  ELSE "ret"])]
    /\ obs' = Forget(t)
    /\ UNCHANGED <<debug_assertions, twin, writer, policyVars, mode, overflow, cell, started, hist>>

\* stacker::grow, after the callback: the segment is unmapped and the
\* thread is back on the segment it came from.
Teardown(t) ==
    /\ Running(t) /\ Depth(t) > 0 /\ Top(t).pc = "teardown"
    /\ segs' = [segs EXCEPT ![t] = Pop(@)]
    /\ stack' = [stack EXCEPT ![t] = SetTop(@, [Top(t) EXCEPT !.pc = "ret"])]
    /\ obs' = Forget(t)
    /\ UNCHANGED <<debug_assertions, twin, writer, policyVars, PROTECTED, mode, overflow,
                   cell, started, hist>>

\* The #[stacksafe] function returns maybe_grow's value to its caller.
Return(t) ==
    /\ Running(t) /\ Depth(t) > 0 /\ Top(t).pc = "ret"
    /\ LET callee == Top(t)
           rest == Pop(stack[t])
           caller == rest[Len(rest)]
       IN  stack' = [stack EXCEPT ![t] =
                       SetTop(rest, [caller EXCEPT !.pc = "after_call",
                                                   !.ret = callee.ret])]
    /\ obs' = Forget(t)
    /\ UNCHANGED <<debug_assertions, twin, writer, policyVars, PROTECTED, segs, mode, overflow,
                   cell, started, hist>>

\* Mutant: a panic skips the release of the segment.
UnwindSegsLeaked(t) ==
    IF Top(t).grew THEN segs[t] ELSE SetTop(segs[t], PopBytes(CurSeg(t)))

\* The thread's segments once a panic has left its top call: a call that
\* grew has its segment unmapped, one that did not gives its bytes back.
UnwindSegs(t) ==
    IF Top(t).grew THEN Pop(segs[t]) ELSE SetTop(segs[t], PopBytes(CurSeg(t)))

\* A panic travels through one guarded call: with_protected has nothing to
\* run, stacker::grow catches the panic, unmaps its segment and resumes it.
Unwind(t) ==
    /\ started[t] /\ ~Aborted /\ mode[t] = "unwind" /\ Depth(t) > 0
    /\ LET callee == Top(t)
           rest == Pop(stack[t])
           caller == rest[Len(rest)]
       IN  /\ PROTECTED' = [PROTECTED EXCEPT ![t] = UnwindFlag(t, callee.old)]
           /\ segs' = [segs EXCEPT ![t] = UnwindSegs(t)]
           /\ stack' = [stack EXCEPT ![t] =
                          SetTop(rest, [caller EXCEPT !.pc = "unwound", !.ret = NoVal])]
    /\ obs' = Forget(t)
    /\ UNCHANGED <<debug_assertions, twin, writer, policyVars, mode, overflow, cell, started, hist>>

\* The panic reaches the thread's own code, which catches it
\* (catch_unwind, the test harness) and carries on.
Catch(t) ==
    /\ started[t] /\ ~Aborted /\ mode[t] = "unwind" /\ Depth(t) = 0
    /\ mode' = [mode EXCEPT ![t] = "run"]
    /\ stack' = [stack EXCEPT ![t] = SetTop(@, [Top(t) EXCEPT !.pc = "caught"])]
    /\ obs' = Forget(t)
    /\ UNCHANGED <<debug_assertions, twin, writer, policyVars, PROTECTED, segs, overflow,
                   cell, started, hist>>


(* --------------------------- StackSafe guard ---------------------------- *)

\* debug_assert!(cond): checked in a debug build, compiled out otherwise.
DebugAssert(cond) == ~debug_assertions \/ cond

\* User code runs here: the thread's own code, or a guarded function's body.
UserPoint(t) == Running(t) /\ (MainReady(t) \/ InBody(t))

\* StackSafe::new(value): wraps the value; no check.
New(t) ==
    \E v \in GuardValues :
        /\ UserPoint(t)
        /\ cell' = [cell EXCEPT ![t] = v]
        /\ obs' = [obs EXCEPT ![t] = Obs("new", v)]
        /\ UNCHANGED <<debug_assertions, twin, writer, policyVars, PROTECTED, stack, segs, mode,
                       overflow, started, hist>>

\* <StackSafe<T> as Deref>::deref: debug_assert!(is_protected()); &self.0
Deref(t) ==
    /\ UserPoint(t)
    /\ IF DebugAssert(is_protected(t))
          THEN /\ obs' = [obs EXCEPT ![t] = Obs("read", cell[t])]
               /\ UNCHANGED mode
          ELSE /\ obs' = [obs EXCEPT ![t] = Obs("fail", 0)]
               /\ mode' = [mode EXCEPT ![t] = "unwind"]
    /\ UNCHANGED <<debug_assertions, twin, writer, policyVars, PROTECTED, stack, segs, overflow,
                   cell, started, hist>>

\* <StackSafe<T> as DerefMut>::deref_mut: debug_assert!(is_protected());
\* &mut self.0, through which the caller stores v.
DerefMut(t) ==
    \E v \in GuardValues :
        /\ UserPoint(t)
        /\ IF DebugAssert(is_protected(t))
              THEN /\ obs' = [obs EXCEPT ![t] = Obs("write", v)]
                   /\ cell' = [cell EXCEPT ![t] = v]
                   /\ UNCHANGED mode
              ELSE /\ obs' = [obs EXCEPT ![t] = Obs("fail", 0)]
                   /\ mode' = [mode EXCEPT ![t] = "unwind"]
                   /\ UNCHANGED cell
        /\ UNCHANGED <<debug_assertions, twin, writer, policyVars, PROTECTED, stack, segs,
                       overflow, started, hist>>

(* ------------------------- guarded functions ---------------------------- *)

\* fn sum(nums: &[u64]) -> u64 on the slice v[arg..n] of v = (0..n):
\* Some((head, tail)) => head + sum(tail): the recursive call.
SumBody(t) ==
    /\ Running(t) /\ Depth(t) > 0 /\ Top(t).fn = "sum" /\ Top(t).pc = "body"
    /\ IF Top(t).arg < Top(t).n
          THEN /\ stack' = [stack EXCEPT ![t] =
                              Call(t, "sum", Top(t).arg + 1, Top(t).n)]
               /\ UNCHANGED hist
          ELSE /\ stack' = [stack EXCEPT ![t] =
                              SetTop(@, [Top(t) EXCEPT !.bodyret = Val("u64", 0),
                                                       !.pc = "exit"])]
               /\ hist' = Produced(t, Val("u64", 0))
    /\ obs' = Forget(t)
    /\ UNCHANGED <<debug_assertions, twin, writer, policyVars, PROTECTED, segs, mode, overflow,
                   cell, started>>

\* head + (what the recursive call returned); head = v[arg] = arg.
SumAdd(t) ==
    /\ Running(t) /\ Depth(t) > 0 /\ Top(t).fn = "sum" /\ Top(t).pc = "after_call"
    /\ LET v == Val("u64", Top(t).arg + Top(t).ret.v)
       IN  /\ stack' = [stack EXCEPT ![t] =
                          SetTop(@, [Top(t) EXCEPT !.bodyret = v, !.pc = "exit"])]
           /\ hist' = Produced(t, v)
    /\ obs' = Forget(t)
    /\ UNCHANGED <<debug_assertions, twin, writer, policyVars, PROTECTED, segs, mode, overflow,
                   cell, started>>

\* The unwrapped body of no_ret: *x *= 10 on a u32.
MulTenHigh(v) == ((v \div Limb) * 10) + (((v % Limb) * 10) \div Limb)
MulTen(v) == ((MulTenHigh(v) % Limb) * Limb) + (((v % Limb) * 10) % Limb)
\* A debug build checks the multiplication for overflow and panics.
MulTenPanics(v) == debug_assertions /\ MulTenHigh(v) >= Limb

\* fn no_ret(x: &mut u32) { *x *= 10; }  x is the caller's local, kept in
\* the caller's frame (field arg).
NoRetBody(t) ==
    /\ Running(t) /\ Depth(t) = 1 /\ Top(t).fn = "no_ret" /\ Top(t).pc = "body"
    /\ IF MulTenPanics(stack[t][1].arg)
          THEN /\ mode' = [mode EXCEPT ![t] = "unwind"]
               /\ UNCHANGED <<stack, hist>>
          ELSE /\ stack' = [stack EXCEPT ![t] =
                              <<[@[1] EXCEPT !.arg = MulTen(@)],
                                [@[2] EXCEPT !.bodyret = Val("unit", 0),
                                             !.pc = "exit"]>>]
               /\ hist' = Produced(t, Val("unit", 0))
               /\ UNCHANGED mode
    /\ obs' = Forget(t)
    /\ UNCHANGED <<debug_assertions, twin, writer, policyVars, PROTECTED, segs, overflow, cell,
                   started>>

\* What the contained value's own formatter may return.
FmtOutcomes == {"Ok", "Err"}

\* <StackSafe<T> as Debug>::fmt: write!(f, "{:?}", &*self.0), whose
\* fmt::Result is the contained value's.
FmtBody(t) ==
    \E r \in FmtOutcomes :
        /\ Running(t) /\ Depth(t) > 0 /\ Top(t).fn = "fmt" /\ Top(t).pc = "body"
        /\ stack' = [stack EXCEPT ![t] =
                       SetTop(@, [Top(t) EXCEPT !.bodyret = Val(r, 0), !.pc = "exit"])]
        /\ hist' = Produced(t, Val(r, 0))
        /\ obs' = Forget(t)
        /\ UNCHANGED <<debug_assertions, twin, writer, policyVars, PROTECTED, segs, mode, overflow,
                       cell, started>>

\* The callback of a guarded call panics (with_protected: `callback()`
\* does not return).
Panic(t) ==
    /\ Running(t) /\ InBody(t)
    /\ mode' = [mode EXCEPT ![t] = "unwind"]
    /\ obs' = Forget(t)
    /\ UNCHANGED <<debug_assertions, twin, writer, policyVars, PROTECTED, stack, segs, overflow,
                   cell, started, hist>>

(* ------------------------- the thread's own code ------------------------ *)

\* The thread may start another top-level call.
CanStart(t) == Running(t) /\ MainReady(t)

\* The thread's own code calls guarded function fn: its frame remembers the
\* argument (arg: the local handed over, n: its value at the call).
Start(t, fn, arg, n) ==
    /\ CanStart(t)
    /\ stack' = [stack EXCEPT ![t] =
                   <<[MainFrame EXCEPT !.pc = "await", !.called = fn, !.arg = arg,
                                       !.n = n],
                     NewFrame(t, fn, 0, n)>>]
    /\ hist' = [hist EXCEPT ![t] = NewHist]
    /\ obs' = Forget(t)
    /\ UNCHANGED <<debug_assertions, twin, writer, policyVars, PROTECTED, segs, mode, overflow,
                   cell, started>>

\* let v: Vec<u64> = (0..n).collect(); sum(&v)
StartSum(t) == \E n \in 0..MaxN : Start(t, "sum", 0, n)

\* let mut x = v; no_ret(&mut x)
StartNoRet(t) == \E v \in XValues : Start(t, "no_ret", v, v)

\* format!("{:?}", guard)
StartFmt(t) == Start(t, "fmt", 0, 0)

(* ------------------- the guard's forwarded operations ------------------- *)

\* The contained value's operations a guard forwards as guarded calls, next
\* to Debug::fmt, clone and drop: PartialEq::eq, PartialOrd::partial_cmp,
\* Ord::cmp, Hash::hash and Display::fmt.
TraitOps == {"eq", "partial_cmp", "cmp", "hash", "display"}

\* std::cmp::Ordering of a against b: Less, Equal, Greater.
Ordering(a, b) == IF a < b THEN "Less" ELSE IF a = b THEN "Equal" ELSE "Greater"

\* The guard the thread's guard is compared with: the twin, or itself.
Other(t) == IF twin[t].st = "live" THEN twin[t].v ELSE cell[t]

\* What the innermost contained value's own operation gives for self.0 = a
\* and other.0 = b.
Delegate(fn, a, b) ==
    CASE fn = "eq" -> Val(IF a = b THEN "true" ELSE "false", 0)
      [] fn = "partial_cmp" -> Val(Ordering(a, b), 1)
      [] fn = "cmp" -> Val(Ordering(a, b), 0)
      [] fn = "hash" -> Val("unit", a)
      [] fn = "display" -> Val("Ok", a)

\* A forwarded operation on a structure of guards nested n deep, at the
\* guard of level arg: the contained value's operation reaches the guard
\* nested in it, or, at the innermost value, computes its result.
TraitBody(t) ==
    /\ Running(t) /\ Depth(t) > 0 /\ Top(t).fn \in TraitOps /\ Top(t).pc = "body"
    /\ IF Top(t).arg < Top(t).n
          THEN /\ stack' = [stack EXCEPT ![t] =
                              Call(t, Top(t).fn, Top(t).arg + 1, Top(t).n)]
               /\ UNCHANGED hist
          ELSE LET v == Delegate(Top(t).fn, cell[t], Other(t))
               IN  /\ stack' = [stack EXCEPT ![t] =
                                  SetTop(@, [Top(t) EXCEPT !.bodyret = v,
                                                           !.pc = "exit"])]
                   /\ hist' = Produced(t, v)
    /\ obs' = Forget(t)
    /\ UNCHANGED <<debug_assertions, twin, writer, policyVars, PROTECTED, segs,
                   mode, overflow, cell, started>>

\* The nested guard's operation has returned: its value is this one's.
TraitAfter(t) ==
    /\ Running(t) /\ Depth(t) > 0 /\ Top(t).fn \in TraitOps
    /\ Top(t).pc = "after_call"
    /\ stack' = [stack EXCEPT ![t] =
                   SetTop(@, [Top(t) EXCEPT !.bodyret = Top(t).ret, !.pc = "exit"])]
    /\ hist' = Produced(t, Top(t).ret)
    /\ obs' = Forget(t)
    /\ UNCHANGED <<debug_assertions, twin, writer, policyVars, PROTECTED, segs,
                   mode, overflow, cell, started>>

\* g.eq(&other), g.partial_cmp(&other), g.cmp(&other), g.hash(&mut h),
\* format!("{}", g), on a structure nested n deep.
StartTrait(t) ==
    \E fn \in TraitOps, n \in 0..MaxNest : Start(t, fn, 0, n)

(* --------------------------- clone, move, drop -------------------------- *)

\* Destructor runs of the contained values of a structure, per level.
NoDtors == [k \in 0..MaxNest |-> 0]

\* No clone of the thread's guard exists.
NoTwin == [st |-> "none", v |-> 0, n |-> 0, at |-> 0, dtors |-> NoDtors]

\* Mutant: the clone holds a fixed value instead of a clone of the value.
CloneValueFixed(v) == CHOOSE x \in GuardValues : \A y \in GuardValues : x <= y

\* self.0.clone() on the innermost value.
CloneValue(v) == v

\* StackSafe(self.0.clone()) at the outermost guard: the new guard exists,
\* owned by the caller's local 0, its contained values not destroyed.
Cloned(t, v) ==
    IF Depth(t) = 1
       THEN [twin EXCEPT ![t] = [st |-> "live", v |-> v, n |-> Top(t).n,
                                 at |-> 0, dtors |-> NoDtors]]
       ELSE twin

\* <StackSafe<T> as Clone>::clone at the guard of level arg.
CloneBody(t) ==
    /\ Running(t) /\ Depth(t) > 0 /\ Top(t).fn = "clone" /\ Top(t).pc = "body"
    /\ IF Top(t).arg < Top(t).n
          THEN /\ stack' = [stack EXCEPT ![t] =
                              Call(t, "clone", Top(t).arg + 1, Top(t).n)]
               /\ UNCHANGED <<hist, twin>>
          ELSE LET v == Val("guard", CloneValue(cell[t]))
               IN  /\ stack' = [stack EXCEPT ![t] =
                                  SetTop(@, [Top(t) EXCEPT !.bodyret = v,
                                                           !.pc = "exit"])]
                   /\ hist' = Produced(t, v)
                   /\ twin' = Cloned(t, v.v)
    /\ obs' = Forget(t)
    /\ UNCHANGED <<debug_assertions, writer, policyVars, PROTECTED, segs, mode,
                   overflow, cell, started>>

\* The nested guard's clone has returned: StackSafe(..) around it.
CloneAfter(t) ==
    /\ Running(t) /\ Depth(t) > 0 /\ Top(t).fn = "clone"
    /\ Top(t).pc = "after_call"
    /\ stack' = [stack EXCEPT ![t] =
                   SetTop(@, [Top(t) EXCEPT !.bodyret = Top(t).ret, !.pc = "exit"])]
    /\ hist' = Produced(t, Top(t).ret)
    /\ twin' = Cloned(t, Top(t).ret.v)
    /\ obs' = Forget(t)
    /\ UNCHANGED <<debug_assertions, writer, policyVars, PROTECTED, segs, mode,
                   overflow, cell, started>>

\* let twin = g.clone(), for a structure nested n deep.
StartClone(t) ==
    \E n \in 0..MaxNest :
        /\ twin[t].st \in {"none", "dropped"}
        /\ Start(t, "clone", 0, n)

\* Mutant: field 0 is a plain T, whose drop glue runs T's destructor.
FieldGluePlain(count) == count + 1

\* The drop glue of field 0 after Drop::drop has returned: the field is a
\* ManuallyDrop<T>, whose glue runs nothing.
FieldGlue(count) == count

\* The twin goes out of use (scope end, drop(twin)): its drop glue calls
\* <StackSafe<T> as Drop>::drop.
StartDrop(t) ==
    /\ CanStart(t)
    /\ twin[t].st = "live"
    /\ twin' = [twin EXCEPT ![t].st = "dropping"]
    /\ stack' = [stack EXCEPT ![t] =
                   <<[MainFrame EXCEPT !.pc = "await", !.called = "drop",
                                       !.n = twin[t].n],
                     NewFrame(t, "drop", 0, twin[t].n)>>]
    /\ hist' = [hist EXCEPT ![t] = NewHist]
    /\ obs' = Forget(t)
    /\ UNCHANGED <<debug_assertions, writer, policyVars, PROTECTED, segs, mode,
                   overflow, cell, started>>

\* <StackSafe<T> as Drop>::drop at the guard of level arg:
\* ManuallyDrop::drop(&mut self.0) runs the contained value's destructor,
\* which destroys the guard nested in it, if any.
DropBody(t) ==
    /\ Running(t) /\ Depth(t) > 0 /\ Top(t).fn = "drop" /\ Top(t).pc = "body"
    /\ twin' = [twin EXCEPT ![t].dtors[Top(t).arg] = @ + 1]
    /\ IF Top(t).arg < Top(t).n
          THEN /\ stack' = [stack EXCEPT ![t] =
                              Call(t, "drop", Top(t).arg + 1, Top(t).n)]
               /\ UNCHANGED hist
          ELSE /\ stack' = [stack EXCEPT ![t] =
                              SetTop(@, [Top(t) EXCEPT !.bodyret = Val("unit", 0),
                                                       !.pc = "exit"])]
               /\ hist' = Produced(t, Val("unit", 0))
    /\ obs' = Forget(t)
    /\ UNCHANGED <<debug_assertions, writer, policyVars, PROTECTED, segs, mode,
                   overflow, cell, started>>

\* Drop::drop of the nested guard has returned into the contained value's
\* destructor: the nested guard's field glue, then the destructor is done.
DropAfter(t) ==
    /\ Running(t) /\ Depth(t) > 0 /\ Top(t).fn = "drop"
    /\ Top(t).pc = "after_call"
    /\ twin' = [twin EXCEPT ![t].dtors[Top(t).arg + 1] = FieldGlue(@)]
    /\ stack' = [stack EXCEPT ![t] =
                   SetTop(@, [Top(t) EXCEPT !.bodyret = Val("unit", 0),
                                            !.pc = "exit"])]
    /\ hist' = Produced(t, Val("unit", 0))
    /\ obs' = Forget(t)
    /\ UNCHANGED <<debug_assertions, writer, policyVars, PROTECTED, segs, mode,
                   overflow, cell, started>>

\* Drop::drop of the twin has returned to the thread's own code: the twin's
\* field glue, and the twin is gone.
DropGlue(t) ==
    /\ Running(t) /\ CallReturned(t) /\ Top(t).called = "drop"
    /\ twin[t].st = "dropping"
    /\ twin' = [twin EXCEPT ![t].st = "dropped", ![t].dtors[0] = FieldGlue(@)]
    /\ stack' = [stack EXCEPT ![t] = SetTop(@, [Top(t) EXCEPT !.pc = "idle"])]
    /\ obs' = Forget(t)
    /\ UNCHANGED <<debug_assertions, writer, policyVars, PROTECTED, segs, mode,
                   overflow, cell, started, hist>>

\* let b = a: the twin moves to the caller's other local; nothing runs.
MoveTwin(t) ==
    /\ UserPoint(t)
    /\ twin[t].st = "live"
    /\ twin' = [twin EXCEPT ![t].at = 1 - @]
    /\ obs' = Forget(t)
    /\ UNCHANGED <<debug_assertions, writer, policyVars, PROTECTED, stack, segs,
                   mode, overflow, cell, started, hist>>

\* Deref::deref on the twin.
DerefTwin(t) ==
    /\ UserPoint(t)
    /\ twin[t].st = "live"
    /\ IF DebugAssert(is_protected(t))
          THEN /\ obs' = [obs EXCEPT ![t] = Obs("twin_read", twin[t].v)]
               /\ UNCHANGED mode
          ELSE /\ obs' = [obs EXCEPT ![t] = Obs("twin_fail", 0)]
               /\ mode' = [mode EXCEPT ![t] = "unwind"]
    /\ UNCHANGED <<debug_assertions, twin, writer, policyVars, PROTECTED, stack,
                   segs, overflow, cell, started, hist>>

\* DerefMut::deref_mut on the twin, through which the caller stores v.
DerefMutTwin(t) ==
    \E v \in GuardValues :
        /\ UserPoint(t)
        /\ twin[t].st = "live"
        /\ IF DebugAssert(is_protected(t))
              THEN /\ obs' = [obs EXCEPT ![t] = Obs("twin_write", v)]
                   /\ twin' = [twin EXCEPT ![t].v = v]
                   /\ UNCHANGED mode
              ELSE /\ obs' = [obs EXCEPT ![t] = Obs("twin_fail", 0)]
                   /\ mode' = [mode EXCEPT ![t] = "unwind"]
                   /\ UNCHANGED twin
        /\ UNCHANGED <<debug_assertions, writer, policyVars, PROTECTED, stack,
                       segs, overflow, cell, started, hist>>

(* ------------------------- threads and the writer ----------------------- *)

\* Another thread starts: its PROTECTED is a fresh thread_local, its stack
\* its own.
Spawn(t) ==
    /\ ~started[t] /\ ~Aborted
    /\ started' = [started EXCEPT ![t] = TRUE]
    /\ UNCHANGED <<debug_assertions, twin, writer, policyVars, PROTECTED, stack,
                   segs, mode, overflow, cell, obs, hist>>

\* The values the writer stores: a threshold above any headroom and a
\* small segment size.
NewThreshold == 2 * DefaultStackAllocSize
NewAllocation == 2 * DefaultMinimumStackSize

\* The writer updates both fields, one setter call after the other, in
\* either order, or updates both and then puts the defaults back.
WriterPrograms ==
    {<<[field |-> "min", bytes |-> NewThreshold],
       [field |-> "alloc", bytes |-> NewAllocation]>>,
     <<[field |-> "alloc", bytes |-> NewAllocation],
       [field |-> "min", bytes |-> NewThreshold]>>,
     <<[field |-> "alloc", bytes |-> NewAllocation],
       [field |-> "min", bytes |-> NewThreshold],
       [field |-> "min", bytes |-> DefaultMinimumStackSize],
       [field |-> "alloc", bytes |-> DefaultStackAllocSize]>>}

\* No writer: the store has held the defaults only.
NoWriter ==
    [todo |-> <<>>,
     stored |-> {<<DefaultMinimumStackSize, DefaultStackAllocSize>>}]

\* The writer thread starts, with one of its programs.
SpawnWriter ==
    /\ ~Aborted
    /\ writer = NoWriter /\ lastSet = [min |-> None, alloc |-> None]
    /\ \E prog \in WriterPrograms : writer' = [writer EXCEPT !.todo = prog]
    /\ UNCHANGED <<debug_assertions, twin, policyVars, PROTECTED, stack, segs,
                   mode, overflow, cell, obs, started, hist>>

\* The writer's next statement is set_minimum_stack_size(bytes).
WriterSetMinimum ==
    /\ ~Aborted
    /\ writer.todo # <<>> /\ Head(writer.todo).field = "min"
    /\ set_minimum_stack_size(Head(writer.todo).bytes)
    /\ lastSet' = [lastSet EXCEPT !.min = Head(writer.todo).bytes]
    /\ writer' = [todo |-> Tail(writer.todo),
                  stored |-> writer.stored
                               \cup {<<MINIMUM_STACK_SIZE', STACK_ALLOC_SIZE'>>}]
    /\ UNCHANGED <<debug_assertions, twin, PROTECTED, stack, segs, mode, overflow,
                   cell, obs, started, hist>>

\* The writer's next statement is set_stack_allocation_size(bytes).
WriterSetAllocation ==
    /\ ~Aborted
    /\ writer.todo # <<>> /\ Head(writer.todo).field = "alloc"
    /\ set_stack_allocation_size(Head(writer.todo).bytes)
    /\ lastSet' = [lastSet EXCEPT !.alloc = Head(writer.todo).bytes]
    /\ writer' = [todo |-> Tail(writer.todo),
                  stored |-> writer.stored
                               \cup {<<MINIMUM_STACK_SIZE', STACK_ALLOC_SIZE'>>}]
    /\ UNCHANGED <<debug_assertions, twin, PROTECTED, stack, segs, mode, overflow,
                   cell, obs, started, hist>>

(* ------------------------------- Init ---------------------------------- *)

Init ==
    /\ debug_assertions \in BOOLEAN
    /\ MINIMUM_STACK_SIZE = DefaultMinimumStackSize
    /\ STACK_ALLOC_SIZE = DefaultStackAllocSize
    /\ PROTECTED = [t \in Threads |-> FALSE]
    /\ stack = [t \in Threads |-> <<MainFrame>>]
    /\ segs = [t \in Threads |-> <<[size |-> InitialStack, used |-> 0]>>]
    /\ mode = [t \in Threads |-> "run"]
    /\ overflow = [t \in Threads |-> FALSE]
    /\ cell = [t \in Threads |-> 10]
    /\ obs = [t \in Threads |-> NoObs]
    /\ started = [t \in Threads |-> t = "t1"]
    /\ lastSet = [min |-> None, alloc |-> None]
    /\ hist = [t \in Threads |-> NewHist]
    /\ twin = [t \in Threads |-> NoTwin]
    /\ writer = NoWriter

ThreadStep(t) ==
    \/ StartSum(t) \/ StartNoRet(t) \/ StartFmt(t)
    \/ LoadMin(t) \/ LoadAlloc(t) \/ Wrap(t) \/ MaybeGrow(t) \/ Enter(t)
    \/ SumBody(t) \/ SumAdd(t) \/ NoRetBody(t) \/ FmtBody(t)
    \/ Exit(t) \/ Teardown(t) \/ Return(t)
    \/ Unwind(t) \/ Catch(t)
    \/ Panic(t) \/ New(t) \/ Deref(t) \/ DerefMut(t)

Next ==
    \/ SetMinimumStackSize
    \/ SetStackAllocationSize
    \/ \E t \in Threads : ThreadStep(t)

Spec == Init /\ [][Next]_vars

\* The steps of a guarded call, whatever its body.
GateStep(t) ==
    \/ LoadMin(t) \/ LoadAlloc(t) \/ Wrap(t) \/ MaybeGrow(t) \/ Enter(t)
    \/ Exit(t) \/ Teardown(t) \/ Return(t)

(* --------------------- executions without unwinding -------------------- *)

\* A guarded call of thread t is active: the closure of one of its calls
\* has started and has not returned.
InClosure(t, i) == stack[t][i].pc \in {"body", "await", "after_call", "exit"}
Active(t) == \E i \in 2..Len(stack[t]) : InClosure(t, i)

\* No panic is travelling through a guarded call.
NoUnwinding == \A t \in Threads : ~(mode[t] = "unwind" /\ Depth(t) > 0)

\* no_ret, where its multiplication does not overflow.
NoRetBodyCalm(t) == NoRetBody(t) /\ NoUnwinding'

\* The steps of a thread none of whose guarded calls panics; a failed
\* guard access outside every guarded call is caught where it happens.
CalmStep(t) ==
    \/ StartSum(t) \/ StartNoRet(t) \/ StartFmt(t)
    \/ GateStep(t)
    \/ SumBody(t) \/ SumAdd(t) \/ NoRetBodyCalm(t) \/ FmtBody(t)
    \/ Catch(t)
    \/ New(t) \/ Deref(t) \/ DerefMut(t)

CalmNext ==
    \/ SetMinimumStackSize
    \/ SetStackAllocationSize
    \/ \E t \in Threads : CalmStep(t)

CalmSpec == Init /\ [][CalmNext]_vars

(* ----------------- the guard's operations, on one thread ---------------- *)

\* The forwarded operations that take the guard by shared reference.
SharedRefOps == TraitOps \cup {"fmt", "clone"}

\* One of them is running on thread t: the guards it works on are
\* borrowed, and cannot be written, replaced or moved until it returns.
Borrowed(t) == \E i \in 1..Len(stack[t]) : stack[t][i].fn \in SharedRefOps

\* Construction, writes and moves, where the borrow allows them.
NewUnborrowed(t) == ~Borrowed(t) /\ New(t)
DerefMutUnborrowed(t) == ~Borrowed(t) /\ DerefMut(t)
DerefMutTwinUnborrowed(t) == ~Borrowed(t) /\ DerefMutTwin(t)
MoveTwinUnborrowed(t) == ~Borrowed(t) /\ MoveTwin(t)

\* A thread that constructs, reads, writes, compares, hashes, formats,
\* clones, moves and drops guards under the default policy; no_ret stands
\* for a guarded function of the user, whose body may access the guards.
GuardStep(t) ==
    \/ StartFmt(t) \/ StartTrait(t) \/ StartClone(t) \/ StartDrop(t)
    \/ StartNoRet(t)
    \/ GateStep(t)
    \/ FmtBody(t) \/ TraitBody(t) \/ TraitAfter(t)
    \/ CloneBody(t) \/ CloneAfter(t) \/ DropBody(t) \/ DropAfter(t)
    \/ DropGlue(t) \/ NoRetBody(t)
    \/ NewUnborrowed(t) \/ DerefMutUnborrowed(t)
    \/ DerefMutTwinUnborrowed(t) \/ MoveTwinUnborrowed(t)
    \/ Deref(t) \/ DerefTwin(t)
    \/ Panic(t) \/ Unwind(t) \/ Catch(t)

GuardNext == \E t \in Threads : GuardStep(t)

GuardSpec == Init /\ [][GuardNext]_vars

(* ------------------------------ two threads ----------------------------- *)

\* A thread that formats its guard and accesses it, and may panic.
IsolationStep(t) ==
    \/ StartFmt(t) \/ GateStep(t) \/ FmtBody(t)
    \/ Deref(t) \/ Panic(t) \/ Unwind(t) \/ Catch(t)

ThreadsNext ==
    \/ SetMinimumStackSize
    \/ \E t \in Threads : Spawn(t)
    \/ \E t \in Threads : IsolationStep(t)

ThreadsSpec == Init /\ [][ThreadsNext]_vars

(* ------------------- two threads and a policy writer -------------------- *)

WriterNext ==
    \/ SpawnWriter \/ WriterSetMinimum \/ WriterSetAllocation
    \/ \E t \in Threads : Spawn(t)
    \/ \E t \in Threads : (StartFmt(t) \/ GateStep(t) \/ FmtBody(t))

WriterSpec == Init /\ [][WriterNext]_vars

(* ------------------------------ properties ------------------------------ *)

\* A guarded call of thread t is between the return of its closure and its
\* own return to the caller.
JustExited(t) == Depth(t) > 0 /\ Top(t).pc \in {"teardown", "ret"}

\* C1: when the closure of a guarded call has returned normally, the
\* thread's flag is the one the caller had before the call, at every depth
\* and on both paths; back in the body of an outer guarded call of a debug
\* build, the flag is still true.
C1_FlagAsBeforeCall ==
    \A t \in Threads :
        /\ JustExited(t) => PROTECTED[t] = Top(t).pre
        /\ (debug_assertions /\ Depth(t) > 0 /\ Top(t).pc = "after_call")
              => PROTECTED[t]

\* An inner guarded call took the grow path and has returned normally
\* inside an outer guarded call, whose flag is still true.
C1_Witness ==
    \E t \in Threads :
        /\ debug_assertions /\ Depth(t) = 2
        /\ Top(t).pc = "ret" /\ Top(t).grew /\ Top(t).pre /\ PROTECTED[t]

\* C2: a guarded call that ends by unwinding leaves the flag as the caller
\* had it: the step that unwinds the call's frame restores `pre`.
C2_FlagRestoredOnUnwind ==
    [][\A t \in Threads :
          (mode[t] = "unwind" /\ Depth(t) > 0 /\ Len(stack'[t]) < Len(stack[t]))
             => PROTECTED'[t] = Top(t).pre]_vars

\* C3: in a debug build a guard access that has just succeeded was made
\* with the flag true and a read returned the contained value, which it
\* left alone; one that has just failed was made with the flag false and
\* panicked; a guard that has just been constructed holds the value given,
\* whatever the flag.
C3_GuardAccess ==
    \A t \in Threads :
        debug_assertions =>
            /\ obs[t].kind \in {"read", "write"} =>
                   PROTECTED[t] /\ mode[t] = "run" /\ obs[t].v = cell[t]
            /\ obs[t].kind = "fail" => ~PROTECTED[t] /\ mode[t] = "unwind"
            /\ obs[t].kind = "new" => mode[t] = "run" /\ obs[t].v = cell[t]
            /\ ~PROTECTED[t] => obs[t].kind \in {"none", "new", "fail"}

\* A read outside every guarded call has just failed.
C3_Witness ==
    \E t \in Threads :
        debug_assertions /\ Depth(t) = 0 /\ obs[t].kind = "fail" /\ ~PROTECTED[t]

\* Thread t takes the step of its top frame that leaves program point pc.
Leaves(t, pc) ==
    /\ Depth(t) > 0 /\ Top(t).pc = pc
    /\ stack'[t] # stack[t]

\* C4: the two loads of a guarded call read the store as it is at that
\* moment, and the probe decides from the values that call loaded: with
\* headroom >= the threshold the segments stay as they are and the body
\* runs where it is; otherwise one segment of the loaded allocation size
\* is added and the body runs on it.
C4_GateDecidesAfresh ==
    [][\A t \in Threads :
          /\ Leaves(t, "load_min") =>
                 stack'[t][Len(stack[t])].rz = MINIMUM_STACK_SIZE
          /\ Leaves(t, "load_alloc") =>
                 stack'[t][Len(stack[t])].ss = STACK_ALLOC_SIZE
          /\ Leaves(t, "gate") =>
                 IF remaining_stack(t) >= Top(t).rz
                    THEN /\ Len(segs'[t]) = Len(segs[t])
                         /\ segs'[t][Len(segs[t])].size = CurSeg(t).size
                         /\ \/ overflow'[t]
                            \/ segs'[t][Len(segs[t])].used = CurSeg(t).used + FrameBytes
                         /\ ~stack'[t][Len(stack[t])].grew
                    ELSE /\ Len(segs'[t]) = Len(segs[t]) + 1
                         /\ SubSeq(segs'[t], 1, Len(segs[t])) = segs[t]
                         /\ segs'[t][Len(segs'[t])].size = Top(t).ss
                         /\ \/ overflow'[t]
                            \/ segs'[t][Len(segs'[t])].used = FrameBytes
                         /\ stack'[t][Len(stack[t])].grew]_vars

\* The first guarded call ran on the thread's own stack under the default
\* policy; the policy was then changed and the call nested in it grew, by a
\* segment of the new allocation size.
C4_Witness ==
    \E t \in Threads :
        /\ Depth(t) = 2 /\ ~stack[t][2].grew
        /\ Top(t).pc = "enter" /\ Top(t).grew
        /\ Len(segs[t]) = 2 /\ segs[t][2].size = DefaultMinimumStackSize
        /\ ~overflow[t]

\* C5 as stated: whenever the threshold and the allocation size a guarded
\* call read are positive, the call's frame finds room (headroom stays >= 0).
C5_AnyPositivePolicy ==
    [][\A t \in Threads :
          (Leaves(t, "gate") /\ Top(t).rz > 0 /\ Top(t).ss > 0)
             => ~overflow'[t]]_vars

\* C5, amended: whenever the threshold and the allocation size a guarded
\* call read are both at least the stack one guarded frame uses, the call's
\* frame finds room, on the current segment or on the new one; a guarded
\* call never waits for anything but its own next step; and sum over 0..n
\* returns n(n-1)/2.
C5_SafePolicyCompletes ==
    /\ [][\A t \in Threads :
             (Leaves(t, "gate") /\ Top(t).rz >= FrameBytes /\ Top(t).ss >= FrameBytes)
                => ~overflow'[t]]_vars
    /\ [](\A t \in Threads :
             (started[t] /\ ~Aborted /\ Depth(t) > 0) => ENABLED ThreadStep(t))
    /\ [](\A t \in Threads :
             (CallReturned(t) /\ Top(t).called = "sum")
                => Top(t).ret = Val("u64", (Top(t).n * (Top(t).n - 1)) \div 2))

\* sum over 0..2 needed more than the thread's own stack, grew twice and
\* returned 1.
C5_Witness ==
    \E t \in Threads :
        /\ CallReturned(t) /\ Top(t).called = "sum" /\ Top(t).n = 2
        /\ hist[t].allocs >= 2 /\ Top(t).ret = Val("u64", 1)

\* The guarded calls of thread t that hold a segment of their own: they
\* took the grow path and have not torn the segment down yet.
Holders(t) == {i \in 2..Len(stack[t]) : stack[t][i].grew /\ stack[t][i].pc # "ret"}

\* C6: the live segments of a thread are its own stack plus exactly one per
\* active guarded call that grew, in call order; once no guarded call is
\* active (returned, or unwound) only the thread's own stack is left, with
\* nothing on it.
C6_SegmentsOwnedByCalls ==
    \A t \in Threads :
        /\ Len(segs[t]) = 1 + Cardinality(Holders(t))
        /\ segs[t][1].size = InitialStack
        /\ Depth(t) = 0 => segs[t] = <<[size |-> InitialStack, used |-> 0]>>

\* A panic has unwound a call that ran on a segment of its own, inside a
\* call that keeps its own segment.
C6_Witness ==
    \E t \in Threads :
        /\ mode[t] = "unwind" /\ Depth(t) = 1 /\ Top(t).pc = "unwound"
        /\ Top(t).grew /\ Len(segs[t]) = 2 /\ hist[t].allocs = 2

\* sum on an unbounded stack, without the gate.
RECURSIVE SumRef(_, _)
SumRef(i, n) == IF i < n THEN i + SumRef(i + 1, n) ELSE 0

\* C7: a top-level guarded call that has returned entered its body once and
\* returned what the body produced; sum returns what the unwrapped sum
\* returns, no_ret has multiplied the caller's x by ten once, fmt hands
\* back the formatter's Ok or Err.
C7_Transparent ==
    \A t \in Threads :
        CallReturned(t) =>
            /\ hist[t].runs = 1
            /\ Top(t).ret = hist[t].out
            /\ Top(t).called = "sum" => Top(t).ret = Val("u64", SumRef(0, Top(t).n))
            /\ Top(t).called = "no_ret" =>
                   Top(t).ret = Val("unit", 0) /\ Top(t).arg = MulTen(Top(t).n)
            /\ Top(t).called = "fmt" => Top(t).ret.tag \in FmtOutcomes

\* With the threshold set very large the call grew, and the formatter's
\* error came back through the new segment.
C7_Witness ==
    \E t \in Threads :
        /\ CallReturned(t) /\ Top(t).called = "fmt" /\ Top(t).ret = Val("Err", 0)
        /\ hist[t].allocs = 1 /\ lastSet.min = DefaultStackAllocSize

\* C8: as long as every probe of the current top-level call has found
\* headroom >= the threshold it read, the call has allocated no segment and
\* the thread runs on its own stack; when it returns, its value is the
\* body's.
C8_ShallowNeverAllocates ==
    \A t \in Threads :
        hist[t].shallow =>
            /\ hist[t].allocs = 0
            /\ Len(segs[t]) = 1
            /\ CallReturned(t) => Top(t).ret = hist[t].out

\* A recursive sum has returned without ever being short of headroom.
C8_Witness ==
    \E t \in Threads :
        /\ CallReturned(t) /\ Top(t).called = "sum" /\ Top(t).n = 1
        /\ hist[t].shallow /\ hist[t].allocs = 0 /\ Top(t).ret = Val("u64", 0)

\* C9 as stated: both policy values are positive in every reachable state.
C9_BothPositive == MINIMUM_STACK_SIZE > 0 /\ STACK_ALLOC_SIZE > 0

\* C9, amended: a policy value is zero only when the latest call of its own
\* setter passed zero.
C9_ZeroOnlyIfSet ==
    /\ MINIMUM_STACK_SIZE >= 0 /\ STACK_ALLOC_SIZE >= 0
    /\ MINIMUM_STACK_SIZE = 0 => lastSet.min = 0
    /\ STACK_ALLOC_SIZE = 0 => lastSet.alloc = 0

\* The threshold was set to zero; the allocation size, set to a positive
\* value, is positive.
C9_Witness ==
    /\ lastSet.min = 0 /\ MINIMUM_STACK_SIZE = 0
    /\ lastSet.alloc = DefaultMinimumStackSize /\ STACK_ALLOC_SIZE > 0

\* C10: each field holds, and its getter returns, 131072 resp. 2097152
\* until its own setter is called, and from then on the argument of the
\* latest call of its own setter, zero included.
C10_StoreHoldsLatest ==
    /\ get_minimum_stack_size =
           (IF lastSet.min = None THEN 131072 ELSE lastSet.min)
    /\ get_stack_allocation_size =
           (IF lastSet.alloc = None THEN 2097152 ELSE lastSet.alloc)
    /\ MINIMUM_STACK_SIZE = get_minimum_stack_size
    /\ STACK_ALLOC_SIZE = get_stack_allocation_size

\* The allocation size was set to zero and the threshold, never set, is
\* still the default.
C10_Witness ==
    /\ lastSet.alloc = 0 /\ get_stack_allocation_size = 0
    /\ lastSet.min = None /\ get_minimum_stack_size = 131072

\* The levels of the twin's structure: the twin's contained value and the
\* values of the guards nested in it.
TwinLevels(t) == 0..twin[t].n

\* C11: no contained value's destructor ever runs twice; while the twin is
\* owned (constructed by clone, moved or not) none has run; once the twin
\* has been destroyed each has run exactly once; a destructor runs only in
\* the body of a guarded drop call, with the flag true in a debug build,
\* and when that call's closure has returned the flag is the caller's again.
C11_DestructorOnceInGuardedCall ==
    /\ [](\A t \in Threads :
            /\ \A k \in 0..MaxNest : twin[t].dtors[k] <= 1
            /\ twin[t].st = "live" => twin[t].dtors = NoDtors
            /\ twin[t].st = "dropped" =>
                   \A k \in 0..MaxNest :
                       twin[t].dtors[k] = (IF k \in TwinLevels(t) THEN 1 ELSE 0)
            /\ (JustExited(t) /\ Top(t).fn = "drop") => PROTECTED[t] = Top(t).pre)
    /\ [][\A t \in Threads :
             (twin'[t].dtors # twin[t].dtors /\ twin'[t].st = twin[t].st)
                => /\ Depth(t) > 0 /\ Top(t).fn = "drop" /\ Top(t).pc = "body"
                   /\ twin[t].st = "dropping"
                   /\ debug_assertions => PROTECTED[t] /\ PROTECTED'[t]]_vars

\* A clone nested one deep was moved to another local and then destroyed:
\* both contained values' destructors have run once, the inner one on a
\* segment of its own.
C11_Witness ==
    \E t \in Threads :
        /\ debug_assertions /\ twin[t].st = "dropped" /\ twin[t].n = 1
        /\ twin[t].at = 1 /\ twin[t].dtors = [k \in 0..MaxNest |-> 1]
        /\ hist[t].allocs = 1 /\ ~PROTECTED[t]

\* Every operation a guard forwards to its contained value.
GuardOps == TraitOps \cup {"fmt", "clone", "drop"}

\* C12: eq, partial_cmp, cmp, hash, both fmt, clone and drop run as guarded
\* calls: in a debug build the flag is true as long as the closure of any
\* of them runs, at every nesting level and on both gate paths; no guard
\* access made inside one fails; and when the outermost one was called with
\* the flag false, the flag is false when its closure has returned and stays
\* so through the return to the caller.
C12_ForwardedOpsGuarded ==
    /\ [](\A t \in Threads :
            /\ \A i \in 2..Len(stack[t]) :
                   (debug_assertions /\ stack[t][i].fn \in GuardOps
                      /\ InClosure(t, i)) => PROTECTED[t]
            /\ (Depth(t) > 0 /\ Top(t).fn \in GuardOps)
                   => obs[t].kind \notin {"fail", "twin_fail"}
            /\ (Depth(t) = 1 /\ Top(t).fn \in GuardOps /\ JustExited(t)
                  /\ ~Top(t).pre) => ~PROTECTED[t])
    /\ [][\A t \in Threads :
             (Leaves(t, "ret") \/ Leaves(t, "teardown"))
                => PROTECTED'[t] = PROTECTED[t]]_vars

\* hash, called with the flag false on a structure nested one deep, has
\* reached the nested guard on a segment of its own, where a read of the
\* guard has just succeeded.
C12_Witness ==
    \E t \in Threads :
        /\ debug_assertions /\ Depth(t) = 2 /\ ~stack[t][2].pre
        /\ Top(t).fn = "hash" /\ Top(t).arg = 1 /\ Top(t).pc = "body"
        /\ Top(t).grew /\ obs[t].kind = "read" /\ PROTECTED[t]

\* Thread t has just made the guard access whose outcome is of this kind.
JustDid(t, kind) == obs'[t] # obs[t] /\ obs'[t].kind = kind

\* C13: a read through a guard returns the value the guard holds and
\* leaves it alone; the value a guard holds changes only by construction
\* or by a write through that same guard, to the value given; the guard a
\* clone creates holds the value the original holds at that moment; and
\* nothing done to one of the two guards changes the other's value.
C13_TransparentContainer ==
    [][\A t \in Threads :
          /\ JustDid(t, "read") => obs'[t].v = cell[t] /\ cell'[t] = cell[t]
          /\ JustDid(t, "twin_read") =>
                 obs'[t].v = twin[t].v /\ twin'[t] = twin[t]
          /\ cell'[t] # cell[t] =>
                 /\ obs'[t].kind \in {"new", "write"} /\ obs'[t].v = cell'[t]
                 /\ twin'[t] = twin[t]
          /\ (twin[t].st = "live" /\ twin'[t].v # twin[t].v) =>
                 /\ obs'[t].kind = "twin_write" /\ obs'[t].v = twin'[t].v
                 /\ cell'[t] = cell[t]
          /\ (twin[t].st # "live" /\ twin'[t].st = "live") =>
                 /\ twin'[t].v = cell[t] /\ cell'[t] = cell[t]
                 /\ Depth(t) = 1 /\ Top(t).fn = "clone"]_vars

\* The guard was cloned while it held 10; a later guarded call wrote 100
\* through the original; a read of the clone, inside a guarded call, has
\* just returned 10.
C13_Witness ==
    \E t \in Threads :
        /\ debug_assertions /\ Depth(t) > 0 /\ twin[t].st = "live"
        /\ obs[t] = Obs("twin_read", 10) /\ cell[t] = 100

\* A step changes a thread's flag only if it is a step of that thread's own
\* guarded call, and then it leaves every other thread's flag alone.
FlagChangesOnlyByOwner ==
    [][\A t \in Threads :
          PROTECTED'[t] # PROTECTED[t] =>
              /\ Depth(t) > 0 /\ stack'[t] # stack[t]
              /\ \A u \in Threads \ {t} :
                     PROTECTED'[u] = PROTECTED[u] /\ stack'[u] = stack[u]]_vars

\* C14: entering or exiting a guarded call on one thread never changes
\* another thread's flag, and in a debug build no guard access made by a
\* thread with no active guarded call succeeds, whatever the other thread
\* is doing.
C14_FlagPerThread ==
    /\ FlagChangesOnlyByOwner
    /\ [](\A t \in Threads :
             (debug_assertions /\ Depth(t) = 0) => obs[t].kind # "read")

\* The thresholds and the allocation sizes the store has ever held.
StoredThresholds == {p[1] : p \in writer.stored}
StoredAllocations == {p[2] : p \in writer.stored}

\* Thread t is at its probe, about to decide with this pair.
DecidesWith(t, red_zone, stack_size) ==
    /\ Depth(t) = 1 /\ Top(t).pc = "gate"
    /\ GateArgs(Top(t)) = <<red_zone, stack_size>>

\* C15: with a writer that updates both fields one after the other, every
\* threshold and every allocation size a gate decision uses is one its
\* field has actually held (the default or the writer's value), although
\* the pair need not be one the store ever held.
C15_SeparateLoads ==
    /\ StoredThresholds \subseteq {DefaultMinimumStackSize, NewThreshold}
    /\ StoredAllocations \subseteq {DefaultStackAllocSize, NewAllocation}
    /\ \A t \in Threads :
           /\ (Depth(t) > 0 /\ Top(t).rz # None) => Top(t).rz \in StoredThresholds
           /\ (Depth(t) > 0 /\ Top(t).ss # None) => Top(t).ss \in StoredAllocations
           /\ (Depth(t) > 0 /\ Top(t).pc = "gate") =>
                  /\ GateArgs(Top(t))[1] \in StoredThresholds
                  /\ GateArgs(Top(t))[2] \in StoredAllocations

\* The writer has updated both fields.  One thread is about to decide with
\* the new threshold and the old allocation size, the other with the old
\* threshold and the new allocation size, and the store never held one of
\* the two pairs.
C15_Witness ==
    /\ writer.todo = <<>> /\ Cardinality(writer.stored) = 3
    /\ DecidesWith("t1", NewThreshold, DefaultStackAllocSize)
    /\ DecidesWith("t2", DefaultMinimumStackSize, NewAllocation)
    /\ \/ <<NewThreshold, DefaultStackAllocSize>> \notin writer.stored
       \/ <<DefaultMinimumStackSize, NewAllocation>> \notin writer.stored

\* C16: in the executions in which no guarded call unwinds, the flag of a
\* debug build is true exactly while a guarded call is active on the
\* thread: false at thread start and while the outermost call is still at
\* its gate, true throughout every guarded body, nested calls included,
\* and false again as soon as the outermost closure has returned.
C16_FlagIffActive ==
    /\ NoUnwinding
    /\ \A t \in Threads : debug_assertions => (PROTECTED[t] <=> Active(t))

\* sum over a slice of two, three guarded calls deep and grown twice, has
\* returned to the thread's own code, and the flag is false.
C16_Witness ==
    \E t \in Threads :
        /\ debug_assertions /\ CallReturned(t) /\ Top(t).called = "sum"
        /\ Top(t).n = 2 /\ hist[t].allocs = 2 /\ ~PROTECTED[t] /\ ~Active(t)

\* The frame of thread t's top call after the step, while the call is
\* still there.
TopAfter(t) == stack'[t][Len(stack[t])]

\* C17: building the closure and probing change no flag: a thread's flag
\* changes only in the enter and exit steps of its top call.  On the grow
\* path the probe step puts the new segment on top and the enter step then
\* runs on it, setting the flag of a debug build; the exit step restores
\* the flag while that segment is still the current one; the teardown step
\* releases the segment, changes no flag and hands nothing to the caller;
\* only the step after it returns the value.
C17_GrowPathOrder ==
    [][\A t \in Threads :
          /\ PROTECTED'[t] # PROTECTED[t] =>
                 Leaves(t, "enter") \/ Leaves(t, "exit")
          /\ (Leaves(t, "gate") /\ TopAfter(t).grew) =>
                 /\ Len(segs'[t]) = Len(segs[t]) + 1
                 /\ TopAfter(t).pc = "enter"
          /\ (Leaves(t, "enter") /\ Top(t).grew) =>
                 /\ segs'[t] = segs[t] /\ TopAfter(t).pc = "body"
                 /\ debug_assertions => PROTECTED'[t]
          /\ (Leaves(t, "exit") /\ Top(t).grew) =>
                 /\ Len(segs'[t]) = Len(segs[t])
                 /\ PROTECTED'[t] = Top(t).pre
                 /\ TopAfter(t).pc = "teardown"
                 /\ TopAfter(t).ret = Top(t).bodyret
          /\ Leaves(t, "teardown") =>
                 /\ segs'[t] = Pop(segs[t])
                 /\ Len(stack'[t]) = Len(stack[t])
                 /\ TopAfter(t).pc = "ret"
                 /\ stack'[t][Len(stack[t]) - 1] = stack[t][Len(stack[t]) - 1]
          /\ (mode[t] = "run" /\ Len(stack'[t]) < Len(stack[t])) =>
                 /\ Top(t).pc = "ret" /\ segs'[t] = segs[t]
                 /\ stack'[t][Len(stack'[t])].ret = Top(t).ret]_vars

\* A call that grew has restored the flag to false and still holds its
\* segment; its caller is waiting and has no value yet.
C17_Witness ==
    \E t \in Threads :
        /\ debug_assertions /\ Depth(t) = 1 /\ Top(t).pc = "teardown"
        /\ Top(t).grew /\ Len(segs[t]) = 2 /\ ~PROTECTED[t]
        /\ stack[t][1].pc = "await" /\ stack[t][1].ret = NoVal
        /\ Top(t).ret # NoVal

\* C18: in a release build is_protected() is true in every state, whatever
\* the calls in progress; no guarded call stores to a flag or keeps an old
\* value of one (the model's PROTECTED stays as it started and every
\* frame's `old` stays unset); and no guard access fails, inside or outside
\* a guarded call.
C18_ReleaseTrackerStateless ==
    /\ [](~debug_assertions =>
            \A t \in Threads :
                /\ is_protected(t)
                /\ PROTECTED[t] = FALSE
                /\ \A i \in 1..Len(stack[t]) : stack[t][i].old = FALSE
                /\ obs[t].kind # "fail"
                /\ obs[t].kind \in {"read", "write"} => mode[t] = "run")
    /\ [][~debug_assertions =>
             \A t \in Threads :
                 /\ PROTECTED'[t] = PROTECTED[t]
                 /\ (UserPoint(t) /\ obs'[t] # obs[t] /\ obs'[t].kind # "none")
                        => /\ obs'[t].kind \in {"new", "read", "write"}
                           /\ obs'[t].v = cell'[t]]_vars

\* In a release build a write through the guard, made by the thread's own
\* code outside every guarded call, has just succeeded.
C18_Witness ==
    \E t \in Threads :
        /\ ~debug_assertions /\ Depth(t) = 0 /\ ~Active(t)
        /\ obs[t] = Obs("write", 100) /\ cell[t] = 100 /\ mode[t] = "run"
=============================================================================
